---- MODULE Spec2Model ----
(***************************************************************************)
(* Model of the particle-simulation visualizer:                            *)
(*   - BackendStressManager   (src/simulation/backend_stress.py)           *)
(*   - ParticleVisualizer     (src/simulation/visualizer.py)               *)
(* Each component is exercised by its own specification; the variables of  *)
(* the other components stay at their constructed values.                  *)
(***************************************************************************)
EXTENDS Integers, Sequences, FiniteSets, TLC

VARIABLES
    \* ---- BackendStressManager fields (backend_stress.py:8-12)
    backend_arrays,       \* self._backend_arrays : list of device handles
    backend_multiplier,   \* self._backend_multiplier
    method,               \* self._method
    library,              \* self._library
    \* ---- the external allocator / kernel (gpu_setup, physics_module)
    allocs,               \* number of allocator calls made so far
    dispatches,           \* kernel dispatches issued by the last run_physics
    \* ---- ParticleVisualizer fields (visualizer.py:29-69)
    sliders,              \* self.sliders : key -> slider record
    dragging_slider,      \* self.dragging_slider
    cap_text,             \* self.max_balls_cap['value'] : string (seq of chars)
    spawn_requests,       \* self.spawn_requests, or Absent (no such attribute)
    appended,             \* requests appended since the last drain (observer's log)
    running,              \* self.running
    pygame,               \* self.pygame : None or the loaded module
    screen,               \* self.screen : None or the display surface
    draw_log,             \* draw commands issued by the last render_frame
    presents,             \* number of display.flip() calls so far
    \* ---- observation of the last call
    ev,                   \* [op, args, ret, raised] of the last call
    calls                 \* number of calls made (bounds the exploration)

vars == <<backend_arrays, backend_multiplier, method, library, allocs,
          dispatches, sliders, dragging_slider, cap_text, spawn_requests,
          appended, running, pygame, screen, draw_log, presents, ev, calls>>

stressVars == <<backend_arrays, backend_multiplier, method, library, allocs,
                dispatches>>
panelVars  == <<sliders, dragging_slider, cap_text, spawn_requests, appended>>
dispVars   == <<running, pygame, screen, draw_log, presents>>

None   == "None"      \* Python's None (falsy)
Absent == "Absent"    \* an attribute that was never assigned
NoErr  == "none"      \* the call returned normally

\* obs: what an observer of the call saw besides its result (op-specific)
Event(op, args, ret, raised, obs) ==
    [op |-> op, args |-> args, ret |-> ret, raised |-> raised, obs |-> obs]

(***************************************************************************)
(* Bounds of the exploration.                                              *)
(***************************************************************************)
MaxCalls == 3

(***************************************************************************)
(* BackendStressManager                                                    *)
(***************************************************************************)
MinMultiplier == 1
MaxMultiplier == 100

Methods       == {"cupy", "torch", "numpy"}
Libraries     == {"lib", None}
ParticleCounts == {1000, 2000}
Multipliers   == {-3, 0, 1, 2, 5, 100, 150}

\* Python truthiness of the stored method / library
Truthy(v) == v # None /\ v # ""

\* gpu_setup.setup_cupy_arrays / setup_torch_arrays: one fresh device handle
\* per call; id is the ordinal of the allocator call that produced it.
SetupArrays(kind, particle_count, id) ==
    [id |-> id, kind |-> kind, n |-> particle_count]

\* Mutant of AllocLoop: an unrecognized method is served by the cupy allocator
\* instead of being skipped.
AllocLoop_UnknownAllocates(count, meth, particle_count, base) ==
    [arrays |-> [i \in 1..count |->
                    SetupArrays(IF meth = "torch" THEN "torch" ELSE "cupy",
                                particle_count, base + i)],
     allocs |-> base + count]

\* The allocation loop of initialize / update_multiplier:
\*   for i in range(count): cupy -> append, torch -> append, else continue
\* The method does not change inside the loop, so every iteration takes the
\* same branch: count appends of fresh handles, or count skips.
\* Returns the list built and the allocator-call counter after the loop.
AllocLoop(count, meth, particle_count, base) ==
    IF meth = "cupy" THEN
        [arrays |-> [i \in 1..count |-> SetupArrays("cupy", particle_count, base + i)],
         allocs |-> base + count]
    ELSE IF meth = "torch" THEN
        [arrays |-> [i \in 1..count |-> SetupArrays("torch", particle_count, base + i)],
         allocs |-> base + count]
    ELSE [arrays |-> <<>>, allocs |-> base]

\* backend_stress.py:14-31
InitializeResult(meth, lib, particle_count, m) ==
    IF m > 1
    THEN AllocLoop(m - 1, meth, particle_count, allocs)
    ELSE [arrays |-> <<>>, allocs |-> allocs]

initialize(meth, lib, particle_count, m) ==
    LET r == InitializeResult(meth, lib, particle_count, m) IN
    /\ method' = meth
    /\ library' = lib
    /\ backend_multiplier' = m
    /\ backend_arrays' = r.arrays
    /\ allocs' = r.allocs
    /\ ev' = Event("initialize", <<meth, lib, particle_count, m>>, None, NoErr, <<>>)

\* Mutant of ClampMultiplier: the upper clamp is missing.
ClampMultiplier_NoUpper(m) ==
    IF m < 1 THEN 1 ELSE m

\* backend_stress.py:34-37
ClampMultiplier(m) ==
    LET lo == IF m < MinMultiplier THEN MinMultiplier ELSE m
    IN  IF lo > MaxMultiplier THEN MaxMultiplier ELSE lo

\* Mutant of UpdateResult: an unchanged multiplier keeps the arrays it has.
UpdateResult_KeepsOnSame(new_multiplier, particle_count) ==
    IF new_multiplier = backend_multiplier /\ backend_arrays # <<>>
    THEN [arrays |-> backend_arrays, allocs |-> allocs]
    ELSE IF new_multiplier > 1 /\ Truthy(method) /\ Truthy(library)
    THEN AllocLoop(new_multiplier - 1, method, particle_count, allocs)
    ELSE [arrays |-> <<>>, allocs |-> allocs]

\* Mutant of UpdateResult: the stored library is not tested before allocating.
UpdateResult_IgnoresLibrary(new_multiplier, particle_count) ==
    IF new_multiplier > 1 /\ Truthy(method)
    THEN AllocLoop(new_multiplier - 1, method, particle_count, allocs)
    ELSE [arrays |-> <<>>, allocs |-> allocs]

\* backend_stress.py:42-52
UpdateResult(new_multiplier, particle_count) ==
    IF new_multiplier > 1 /\ Truthy(method) /\ Truthy(library)
    THEN AllocLoop(new_multiplier - 1, method, particle_count, allocs)
    ELSE [arrays |-> <<>>, allocs |-> allocs]

\* backend_stress.py:33-55
update_multiplier(m, particle_count) ==
    LET new_multiplier == ClampMultiplier(m)
        r == UpdateResult(new_multiplier, particle_count) IN
    /\ backend_multiplier' = new_multiplier
    /\ backend_arrays' = r.arrays
    /\ allocs' = r.allocs
    /\ UNCHANGED <<method, library>>
    /\ ev' = Event("update_multiplier", <<m, particle_count>>, None, NoErr, <<>>)

\* physics_module.run_particle_physics_cupy / run_particle_physics_torch:
\* one kernel dispatch against one device handle
Dispatch(kernel, handle, lib) == [kernel |-> kernel, handle |-> handle, lib |-> lib]

\* backend_stress.py:61-65  the dispatch loop over an array list: one
\* dispatch per handle, in list order, for 'cupy' / 'torch'; nothing for any
\* other method (the method does not change inside the loop, so every
\* iteration takes the same branch).
DispatchLoop(arrays, lib) ==
    IF method = "cupy" THEN
        [i \in 1..Len(arrays) |-> Dispatch("cupy", arrays[i], lib)]
    ELSE IF method = "torch" THEN
        [i \in 1..Len(arrays) |-> Dispatch("torch", arrays[i], lib)]
    ELSE <<>>

\* Mutant of PhysicsDispatches: the duplicates are visited last to first.
PhysicsDispatches_Reversed(lib) ==
    DispatchLoop([i \in 1..Len(backend_arrays) |->
                     backend_arrays[Len(backend_arrays) + 1 - i]], lib)

\* backend_stress.py:58-65
PhysicsDispatches(lib) ==
    IF backend_arrays = <<>> THEN <<>> ELSE DispatchLoop(backend_arrays, lib)

\* backend_stress.py:57-65
run_physics(lib) ==
    /\ dispatches' = PhysicsDispatches(lib)
    /\ UNCHANGED <<backend_arrays, backend_multiplier, method, library, allocs>>
    /\ ev' = Event("run_physics", <<lib>>, None, NoErr, <<>>)

\* backend_stress.py:67-68 and 70-71
get_multiplier == backend_multiplier
get_array_count == Len(backend_arrays)

Initialize ==
    /\ calls < MaxCalls
    /\ \E meth \in Methods, lib \in Libraries, n \in ParticleCounts, m \in Multipliers :
          initialize(meth, lib, n, m)
    /\ calls' = calls + 1
    /\ UNCHANGED <<dispatches, panelVars, dispVars>>

UpdateMultiplier ==
    /\ calls < MaxCalls
    /\ \E m \in Multipliers, n \in ParticleCounts : update_multiplier(m, n)
    /\ calls' = calls + 1
    /\ UNCHANGED <<dispatches, panelVars, dispVars>>

RunPhysics ==
    /\ calls < MaxCalls
    /\ \E lib \in Libraries : run_physics(lib)
    /\ calls' = calls + 1
    /\ UNCHANGED <<panelVars, dispVars>>

(***************************************************************************)
(* ParticleVisualizer: control panel                                       *)
(***************************************************************************)
WindowWidth  == 1600
WindowHeight == 1000
Margin       == 40
Spacing      == 18
SliderWidth  == 300
ControlYMin  == 40
ControlYUp   == 80
HitAbove     == 12
HitBelow     == 32
DefaultCap   == 100000

\* dict order of self.sliders (visualizer.py:47-51)
SliderOrder == <<"gravity", "small_ball_speed", "initial_balls">>
SliderKeys  == {SliderOrder[i] : i \in 1..Len(SliderOrder)}

\* Slider values are floats in the program.  They are modelled as exact
\* fractions num/den in lowest terms (den > 0), tagged with the float kind:
\* "fin" for a finite value, "nan" / "inf" for the values math.isnan /
\* math.isinf detect.  The float evaluation of the value rule is monotone in
\* the pointer position and exact at both ends of the track, and on the
\* integer slider it rounds to the same integer as the exact fraction at each
\* of the 301 pixel positions of the track.
RECURSIVE GCD(_, _)
GCD(a, b) == IF b = 0 THEN a ELSE GCD(b, a % b)
Abs(a) == IF a < 0 THEN -a ELSE a
Frac(num, den) ==
    LET g == GCD(Abs(num), den)
    IN  [kind |-> "fin", num |-> num \div g, den |-> den \div g]
Whole(n) == [kind |-> "fin", num |-> n, den |-> 1]

\* math.isnan(v) or math.isinf(v)
IsNanOrInf(v) == v.kind = "nan" \/ v.kind = "inf"

\* Python round() of a finite value: nearest integer, ties to even
Round(v) ==
    LET q == v.num \div v.den
        r == v.num % v.den
    IN  IF 2 * r < v.den THEN q
        ELSE IF 2 * r > v.den THEN q + 1
        ELSE IF q % 2 = 0 THEN q ELSE q + 1

Max2(a, b) == IF a > b THEN a ELSE b
Min2(a, b) == IF a < b THEN a ELSE b

\* visualizer.py:47-51 (values, ranges, is_int) after _layout_controls
\* (visualizer.py:118-131) has placed the sliders left to right.
ControlY == Max2(ControlYMin, WindowHeight - ControlYUp)
SliderX(i) == Margin + (i - 1) * (SliderWidth + Spacing)
LayoutSliders(width) ==
    [k \in SliderKeys |->
        IF k = "gravity" THEN
            [value |-> Whole(500), min |-> 0, max |-> 10000,
             x |-> SliderX(1), y |-> ControlY, width |-> width, is_int |-> FALSE]
        ELSE IF k = "small_ball_speed" THEN
            [value |-> Whole(300), min |-> 50, max |-> 600,
             x |-> SliderX(2), y |-> ControlY, width |-> width, is_int |-> FALSE]
        ELSE
            [value |-> Whole(1), min |-> 1, max |-> 10,
             x |-> SliderX(3), y |-> ControlY, width |-> width, is_int |-> TRUE]]

\* Mutant of UpdateSliderValue: the pointer x is not clamped to the track.
UpdateSliderValue_NoClamp(slider, mouse_x) ==
    IF slider.width = 0 THEN [slider |-> slider, raised |-> "ZeroDivisionError"]
    ELSE LET value == Frac(slider.min * slider.width
                            + (mouse_x - slider.x) * (slider.max - slider.min),
                           slider.width)
             final == IF slider.is_int THEN Whole(Round(value)) ELSE value
         IN  [slider |-> [slider EXCEPT !.value = final], raised |-> NoErr]

\* visualizer.py:304-320  _update_slider_value, on one slider record.
\* The division of line 310 raises ZeroDivisionError for width 0 (both
\* operands are Python ints), before the value is written.
UpdateSliderValue(slider, mouse_x) ==
    LET x       == slider.x
        width   == slider.width
        clamped == Max2(x, Min2(mouse_x, x + width))
    IN  IF width = 0 THEN [slider |-> slider, raised |-> "ZeroDivisionError"]
        ELSE LET \* min + ((clamped - x) / width) * (max - min)
                 value   == Frac(slider.min * width
                                  + (clamped - x) * (slider.max - slider.min), width)
                 guarded == IF IsNanOrInf(value) THEN Whole(slider.min) ELSE value
                 final   == IF slider.is_int THEN Whole(Round(guarded)) ELSE guarded
             IN  [slider |-> [slider EXCEPT !.value = final], raised |-> NoErr]

\* Mutant of SliderHit: the vertical hit-box is not tested.
SliderHit_IgnoresY(slider, mx, my) ==
    slider.x <= mx /\ mx <= slider.x + slider.width

\* visualizer.py:295  the hit test of one slider
SliderHit(slider, mx, my) ==
    /\ slider.x <= mx /\ mx <= slider.x + slider.width
    /\ slider.y - HitAbove <= my /\ my <= slider.y + HitBelow

\* visualizer.py:292-298  the first slider, in dict order, that the pointer hits
RECURSIVE FirstHit(_, _, _)
FirstHit(i, mx, my) ==
    IF i > Len(SliderOrder) THEN None
    ELSE IF SliderHit(sliders[SliderOrder[i]], mx, my) THEN SliderOrder[i]
    ELSE FirstHit(i + 1, mx, my)

\* Mutant of ClickTarget: a click starts a drag only when none is in progress.
ClickTarget_KeepsPriorDrag(mx, my) ==
    IF dragging_slider # None THEN None ELSE FirstHit(1, mx, my)

ClickTarget(mx, my) == FirstHit(1, mx, my)

\* visualizer.py:290-298
handle_slider_click(mx, my) ==
    LET key == ClickTarget(mx, my) IN
    IF key = None
    THEN /\ UNCHANGED <<sliders, dragging_slider>>
         /\ ev' = Event("click", <<mx, my>>, None, NoErr, <<dragging_slider, None>>)
    ELSE LET r == UpdateSliderValue(sliders[key], mx) IN
         /\ dragging_slider' = key
         /\ sliders' = [sliders EXCEPT ![key] = r.slider]
         /\ ev' = Event("click", <<mx, my>>, None, r.raised, <<dragging_slider, key>>)

\* visualizer.py:300-302
handle_slider_drag(mx, my) ==
    IF dragging_slider # None
    THEN LET r == UpdateSliderValue(sliders[dragging_slider], mx) IN
         /\ sliders' = [sliders EXCEPT ![dragging_slider] = r.slider]
         /\ UNCHANGED dragging_slider
         /\ ev' = Event("drag", <<mx, my>>, None, r.raised,
                        <<dragging_slider, dragging_slider>>)
    ELSE /\ UNCHANGED <<sliders, dragging_slider>>
         /\ ev' = Event("drag", <<mx, my>>, None, NoErr, <<dragging_slider, None>>)

\* ---- the cap text field -------------------------------------------------
Digits == <<"0", "1", "2", "3", "4", "5", "6", "7", "8", "9">>
IsDigit(c) == \E d \in 1..10 : Digits[d] = c
DigitValue(c) == (CHOOSE d \in 1..10 : Digits[d] = c) - 1

\* int(text) for a text over digits and letters: the decimal value when every
\* character is a digit, ValueError otherwise (signs, blanks and underscores
\* are not in the alphabet typed here).
RECURSIVE DecimalValue(_)
DecimalValue(text) ==
    IF text = <<>> THEN 0
    ELSE 10 * DecimalValue(SubSeq(text, 1, Len(text) - 1))
         + DigitValue(text[Len(text)])

ParseInt(text) ==
    IF text # <<>> /\ \A i \in 1..Len(text) : IsDigit(text[i])
    THEN [ok |-> TRUE,  value |-> DecimalValue(text)]
    ELSE [ok |-> FALSE, value |-> 0]

\* visualizer.py:332
\*   int(self.max_balls_cap['value']) if self.max_balls_cap['value'] else 100000
CapValue(text) ==
    IF text # <<>> THEN ParseInt(text) ELSE [ok |-> TRUE, value |-> DefaultCap]

\* visualizer.py:325-330  the read-time NaN/Infinite guard, written back
SanitizedSliders ==
    [k \in SliderKeys |->
        IF IsNanOrInf(sliders[k].value)
        THEN [sliders[k] EXCEPT !.value = Whole(sliders[k].min)]
        ELSE sliders[k]]

\* visualizer.py:322-338
get_slider_values ==
    LET cap == CapValue(cap_text) IN
    /\ sliders' = SanitizedSliders
    /\ UNCHANGED <<dragging_slider, cap_text>>
    /\ ev' = IF cap.ok
             THEN Event("get_slider_values", <<>>,
                        [gravity            |-> SanitizedSliders["gravity"].value,
                         small_ball_speed   |-> SanitizedSliders["small_ball_speed"].value,
                         initial_balls      |-> SanitizedSliders["initial_balls"].value,
                         max_balls_cap      |-> cap.value,
                         backend_multiplier |-> 1,
                         big_ball_count     |-> 3],
                        NoErr, <<>>)
             ELSE Event("get_slider_values", <<>>, None, "ValueError", <<>>)

\* Mutant of DrainResult: the queue is cleared before the snapshot is taken.
DrainResult_ClearsFirst(queue) ==
    IF queue = Absent
    THEN [ret |-> <<>>, queue |-> Absent]
    ELSE [ret |-> <<>>, queue |-> <<>>]

\* visualizer.py:346-351
DrainResult(queue) ==
    IF queue = Absent
    THEN [ret |-> <<>>, queue |-> Absent]
    ELSE [ret |-> queue, queue |-> <<>>]

get_spawn_requests ==
    LET r == DrainResult(spawn_requests) IN
    /\ spawn_requests' = r.queue
    /\ appended' = <<>>
    /\ ev' = Event("get_spawn_requests", <<>>, r.ret, NoErr, <<>>)

(***************************************************************************)
(* ParticleVisualizer: display                                             *)
(***************************************************************************)
CanvasWidth  == 1000
CanvasHeight == 800

\* visualizer.py:149-150
is_available == running /\ pygame # None

\* Mutant of RenderEnabled: only the loaded module is checked, not `running`.
RenderEnabled_IgnoresRunning == pygame # None

\* visualizer.py:165  the guard render_frame applies before drawing
RenderEnabled == is_available

\* min(scale_x, scale_y) as a fraction <<num, den>>, with
\* scale_x = window_width / 1000.0 and scale_y = window_height / 800.0
MinScale ==
    IF WindowWidth * CanvasHeight <= WindowHeight * CanvasWidth
    THEN <<WindowWidth, CanvasWidth>>
    ELSE <<WindowHeight, CanvasHeight>>
\* int(v * min(scale_x, scale_y)) for v >= 0
Scaled(v) == (v * MinScale[1]) \div MinScale[2]

Draw(cmd, idx, radius) == [cmd |-> cmd, idx |-> idx, radius |-> radius]

\* visualizer.py:173-194  the rings of one influence boundary
BoundaryDraws(i, bradius) ==
    LET screen_radius == Max2(10, Scaled(bradius)) IN
    (IF screen_radius > 5 THEN <<Draw("ring", i, screen_radius)>> ELSE <<>>)
    \o <<Draw("anchor_ring", i, Scaled(36))>>

\* visualizer.py:218-235  halo, then core, of one particle (glows is None:
\* glow_intensity = 0.0, so the halo is 3 pixels wider than the core)
ParticleDraws(i, mass) ==
    LET radius == IF mass >= 1000 THEN 36 ELSE 8 IN
    <<Draw("halo", i, radius + 3), Draw("core", i, radius)>>

\* visualizer.py:173  for bx, by, bradius in influence_boundaries
RECURSIVE AllBoundaryDraws(_, _)
AllBoundaryDraws(boundaries, i) ==
    IF i > Len(boundaries) THEN <<>>
    ELSE BoundaryDraws(i, boundaries[i]) \o AllBoundaryDraws(boundaries, i + 1)

\* visualizer.py:201  for i in range(num_particles)
RECURSIVE AllParticleDraws(_, _)
AllParticleDraws(masses, i) ==
    IF i > Len(masses) THEN <<>>
    ELSE ParticleDraws(i, masses[i]) \o AllParticleDraws(masses, i + 1)

\* Mutant of FrameDraws: the trail-fade overlay is blended after the particles.
FrameDraws_FadeAfterParticles(boundaries, masses) ==
    <<Draw("fill", 0, 0)>>
    \o AllBoundaryDraws(boundaries, 1)
    \o AllParticleDraws(masses, 1)
    \o <<Draw("fade", 0, 0)>>
    \o <<Draw("stats", 0, 0), Draw("sliders", 0, 0), Draw("text_input", 0, 0),
         Draw("multiplier_button", 0, 0), Draw("toggle_button", 0, 0)>>
    \o <<Draw("flip", 0, 0)>>

\* visualizer.py:168-255  every command of one frame, in issue order
FrameDraws(boundaries, masses) ==
    <<Draw("fill", 0, 0)>>
    \o AllBoundaryDraws(boundaries, 1)
    \o <<Draw("fade", 0, 0)>>
    \o AllParticleDraws(masses, 1)
    \o <<Draw("stats", 0, 0), Draw("sliders", 0, 0), Draw("text_input", 0, 0),
         Draw("multiplier_button", 0, 0), Draw("toggle_button", 0, 0)>>
    \o <<Draw("flip", 0, 0)>>

\* visualizer.py:152-255
render_frame(boundaries, masses) ==
    /\ IF ~RenderEnabled
       THEN /\ draw_log' = <<>>
            /\ presents' = presents
            /\ ev' = Event("render_frame", <<boundaries, masses>>, None, NoErr,
                           <<is_available>>)
       ELSE IF screen = None
       THEN \* self.screen.fill on None
            /\ draw_log' = <<>>
            /\ presents' = presents
            /\ ev' = Event("render_frame", <<boundaries, masses>>, None,
                           "AttributeError", <<is_available>>)
       ELSE /\ draw_log' = FrameDraws(boundaries, masses)
            /\ presents' = presents + 1
            /\ ev' = Event("render_frame", <<boundaries, masses>>, None, NoErr,
                           <<is_available>>)
    /\ UNCHANGED <<running, pygame, screen>>

\* visualizer.py:353-372
close ==
    /\ running' = FALSE
    /\ UNCHANGED <<pygame, screen, draw_log, presents>>
    /\ ev' = Event("close", <<>>, None, NoErr, <<is_available>>)

(***************************************************************************)
(* Inputs of the exploration                                               *)
(***************************************************************************)
MaxCapLen     == 4
MaxQueue      == 3
MaxBoundaries == 2
MaxParticles  == 2

\* pointer positions: off the panel, both ends and inner points of each
\* track, the gaps between tracks, and both edges of the vertical hit-box
PointerXs == {0, 40, 190, 340, 349, 358, 508, 658, 676, 726, 826, 976, 1200}
PointerYs == {907, 908, 920, 952, 953}
TypedChars == {"0", "5", "a"}
Requests   == {"A", "B"}
Radii      == {0, 100}
Masses     == {1, 1000}
SeqsUpTo(S, n) == UNION {[1..k -> S] : k \in 0..n}

(***************************************************************************)
(* External event handling (event_handler), as the specification states it *)
(***************************************************************************)
\* pointer-up: DRAGGING -> IDLE
PointerUp ==
    /\ dragging_slider' = None
    /\ ev' = Event("pointer_up", <<>>, None, NoErr, <<dragging_slider, None>>)
    /\ UNCHANGED <<sliders, cap_text, spawn_requests, appended>>
    /\ UNCHANGED <<stressVars, dispVars, calls>>

\* a character typed into the focused cap field
TypeChar ==
    /\ Len(cap_text) < MaxCapLen
    /\ \E c \in TypedChars :
          /\ cap_text' = Append(cap_text, c)
          /\ ev' = Event("type", <<c>>, None, NoErr, <<>>)
    /\ UNCHANGED <<sliders, dragging_slider, spawn_requests, appended>>
    /\ UNCHANGED <<stressVars, dispVars, calls>>

\* backspace in the focused cap field
Backspace ==
    /\ cap_text # <<>>
    /\ cap_text' = SubSeq(cap_text, 1, Len(cap_text) - 1)
    /\ ev' = Event("backspace", <<>>, None, NoErr, <<>>)
    /\ UNCHANGED <<sliders, dragging_slider, spawn_requests, appended>>
    /\ UNCHANGED <<stressVars, dispVars, calls>>

\* a spawn request appended to the queue (created on first use)
AppendSpawn ==
    /\ Len(appended) < MaxQueue
    /\ \E r \in Requests :
          /\ spawn_requests' = IF spawn_requests = Absent THEN <<r>>
                               ELSE Append(spawn_requests, r)
          /\ appended' = Append(appended, r)
          /\ ev' = Event("append_spawn", <<r>>, None, NoErr, <<>>)
    /\ UNCHANGED <<sliders, dragging_slider, cap_text>>
    /\ UNCHANGED <<stressVars, dispVars, calls>>

(***************************************************************************)
(* Calls into the visualizer                                               *)
(***************************************************************************)
SliderClick ==
    /\ \E mx \in PointerXs, my \in PointerYs : handle_slider_click(mx, my)
    /\ UNCHANGED <<cap_text, spawn_requests, appended>>
    /\ UNCHANGED <<stressVars, dispVars, calls>>

SliderDrag ==
    /\ \E mx \in PointerXs, my \in PointerYs : handle_slider_drag(mx, my)
    /\ UNCHANGED <<cap_text, spawn_requests, appended>>
    /\ UNCHANGED <<stressVars, dispVars, calls>>

GetSliderValues ==
    /\ get_slider_values
    /\ UNCHANGED <<spawn_requests, appended>>
    /\ UNCHANGED <<stressVars, dispVars, calls>>

GetSpawnRequests ==
    /\ get_spawn_requests
    /\ UNCHANGED <<sliders, dragging_slider, cap_text>>
    /\ UNCHANGED <<stressVars, dispVars, calls>>

RenderFrame ==
    /\ calls < MaxCalls
    /\ \E boundaries \in SeqsUpTo(Radii, MaxBoundaries),
          masses \in SeqsUpTo(Masses, MaxParticles) :
          render_frame(boundaries, masses)
    /\ calls' = calls + 1
    /\ UNCHANGED <<stressVars, panelVars>>

Close ==
    /\ calls < MaxCalls
    /\ close
    /\ calls' = calls + 1
    /\ UNCHANGED <<stressVars, panelVars>>

(***************************************************************************)
(* Construction                                                            *)
(***************************************************************************)
\* backend_stress.py:8-12
StressInit ==
    /\ backend_arrays = <<>>
    /\ backend_multiplier = 1
    /\ method = None
    /\ library = None
    /\ allocs = 0
    /\ dispatches = <<>>

\* visualizer.py:47-61, 112-131
PanelInit ==
    /\ sliders = LayoutSliders(SliderWidth)
    /\ dragging_slider = None
    /\ cap_text = <<"1", "0", "0", "0", "0", "0">>
    /\ spawn_requests = Absent
    /\ appended = <<>>

\* visualizer.py:74-104  _init_pygame ran to the end
DisplayInit ==
    /\ running = TRUE
    /\ pygame = "pygame"
    /\ screen = "surface"
    /\ draw_log = <<>>
    /\ presents = 0

\* visualizer.py:74-109  every way _init_pygame can return: to the end, or
\* through the ImportError handler (at `import pygame`, or at a later line,
\* with self.pygame and possibly self.screen already assigned).
DisplayInitAny ==
    /\ \E o \in { <<TRUE, "pygame", "surface">>,
                  <<FALSE, None, None>>,
                  <<FALSE, "pygame", None>>,
                  <<FALSE, "pygame", "surface">> } :
          running = o[1] /\ pygame = o[2] /\ screen = o[3]
    /\ draw_log = <<>>
    /\ presents = 0

ObserverInit ==
    /\ ev = Event("construct", <<>>, None, NoErr, <<>>)
    /\ calls = 0

Init == StressInit /\ PanelInit /\ DisplayInit /\ ObserverInit

\* a panel whose sliders all have the given track width, including the
\* degenerate width 0
DegenerateWidths == {0, 1, SliderWidth}
RuleInit ==
    /\ StressInit /\ DisplayInit /\ ObserverInit
    /\ \E w \in DegenerateWidths : sliders = LayoutSliders(w)
    /\ dragging_slider = None
    /\ cap_text = <<"1", "0", "0", "0", "0", "0">>
    /\ spawn_requests = Absent
    /\ appended = <<>>

RenderInit == StressInit /\ PanelInit /\ DisplayInitAny /\ ObserverInit

(***************************************************************************)
(* Specifications                                                          *)
(***************************************************************************)
StressNext ==
    \/ Initialize
    \/ UpdateMultiplier
    \/ RunPhysics

PanelNext ==
    \/ SliderClick
    \/ SliderDrag
    \/ PointerUp
    \/ GetSliderValues

InputNext ==
    \/ TypeChar
    \/ Backspace
    \/ GetSliderValues
    \/ AppendSpawn
    \/ GetSpawnRequests

RenderNext ==
    \/ RenderFrame
    \/ Close

SpecStress == Init /\ [][StressNext]_vars
SpecPanel  == Init /\ [][PanelNext]_vars
SpecRule   == RuleInit /\ [][PanelNext]_vars
SpecInput  == Init /\ [][InputNext]_vars
SpecRender == RenderInit /\ [][RenderNext]_vars

(***************************************************************************)
(* Claims about BackendStressManager (checked under SpecStress)            *)
(***************************************************************************)
Recognized == {"cupy", "torch"}
\* the multiplier argument of the last initialize / update_multiplier call
RequestedMultiplier(e) == IF e.op = "initialize" THEN e.args[4] ELSE e.args[1]
Range(seq) == {seq[i] : i \in 1..Len(seq)}

\* C1: in every reachable state the stored multiplier lies in [1, 100]
\* (both initialize and update_multiplier clamp what they write).
C1_MultiplierInRange ==
    get_multiplier >= 1 /\ get_multiplier <= 100

\* C4: after initialize with a recognized method and a usable library,
\* update_multiplier(m, n) leaves get_multiplier() = m clamped into [1, 100]
\* and get_array_count() = get_multiplier() - 1.
C4_UpdateClampsAndAllocates ==
    (ev.op = "update_multiplier" /\ method \in Recognized /\ library = "lib")
        => LET m == ev.args[1] IN
           /\ get_multiplier = (IF m < 1 THEN 1 ELSE IF m > 100 THEN 100 ELSE m)
           /\ get_array_count = get_multiplier - 1

C4_Witness ==
    /\ ev.op = "update_multiplier" /\ method = "cupy" /\ library = "lib"
    /\ ev.args[1] = 150 /\ get_multiplier = 100 /\ get_array_count = 99

\* C8: with a method that is neither 'cupy' nor 'torch', initialize and
\* update_multiplier with m > 1 return normally, call no allocator, record
\* the multiplier and leave fewer than multiplier - 1 duplicates.
C8_UnknownMethodSkips ==
    [][ (/\ calls' = calls + 1
         /\ ev'.op \in {"initialize", "update_multiplier"}
         /\ method' \notin Recognized
         /\ RequestedMultiplier(ev') > 1)
        => (/\ ev'.raised = NoErr
            /\ allocs' = allocs
            /\ (RequestedMultiplier(ev') <= 100
                    => backend_multiplier' = RequestedMultiplier(ev'))
            /\ backend_multiplier' > 1
            /\ Len(backend_arrays') < backend_multiplier' - 1) ]_vars

C8_Witness ==
    /\ ev.op = "update_multiplier" /\ method = "numpy" /\ library = "lib"
    /\ ev.args[1] = 5 /\ get_multiplier = 5 /\ get_array_count = 0

\* C9: every initialize and update_multiplier call replaces the duplicate
\* set wholesale: afterwards it holds only handles the allocator returned
\* during that call, and none that was held before it.
C9_WholesaleReplace ==
    [][ (calls' = calls + 1 /\ ev'.op \in {"initialize", "update_multiplier"})
        => (/\ \A h \in Range(backend_arrays') : h.id > allocs /\ h.id <= allocs'
            /\ Range(backend_arrays') \cap Range(backend_arrays) = {}) ]_vars

\* initialize with multiplier 5, then update_multiplier with the same 5:
\* the four duplicates are the four handles of the second call.
C9_Witness ==
    /\ calls = 2 /\ ev.op = "update_multiplier" /\ ev.args[1] = 5
    /\ get_array_count = 4 /\ backend_arrays[1].id = 5 /\ allocs = 8

\* C11: run_physics issues exactly one kernel dispatch per duplicate in the
\* array set, in list order, each with the kernel of the configured method,
\* and none when the set is empty; it leaves the stored multiplier and the
\* array set unchanged.
C11_OneDispatchPerDuplicate ==
    [][ ev'.op = "run_physics"
          => (/\ Len(dispatches') = Len(backend_arrays)
              /\ \A i \in 1..Len(backend_arrays) :
                    /\ dispatches'[i].handle = backend_arrays[i]
                    /\ dispatches'[i].kernel = method
                    /\ dispatches'[i].kernel \in {"cupy", "torch"}
              /\ backend_multiplier' = backend_multiplier
              /\ backend_arrays' = backend_arrays) ]_vars

C11_Witness ==
    /\ ev.op = "run_physics" /\ method = "torch"
    /\ get_array_count = 4 /\ Len(dispatches) = 4
    /\ dispatches[1].handle = backend_arrays[1]
    /\ dispatches[4].handle = backend_arrays[4]

\* C13: update_multiplier called while the manager is still uninitialized
\* (no method, no library stored), or after initialize stored a falsy
\* library, records the clamped multiplier and allocates nothing:
\* get_array_count() is 0 even when get_multiplier() > 1.
C13_NoLibraryNoAllocation ==
    [][ (/\ ev'.op = "update_multiplier"
         /\ (method = None \/ library = None))
        => (/\ backend_multiplier' =
                  (IF ev'.args[1] < 1 THEN 1
                   ELSE IF ev'.args[1] > 100 THEN 100 ELSE ev'.args[1])
            /\ backend_arrays' = <<>>
            /\ allocs' = allocs) ]_vars

\* initialize stored method 'cupy' with a falsy library; update_multiplier(5)
C13_Witness ==
    /\ ev.op = "update_multiplier" /\ ev.args[1] = 5
    /\ method = "cupy" /\ library = None
    /\ get_multiplier = 5 /\ get_array_count = 0 /\ calls = 2

(***************************************************************************)
(* Claims about the control panel (SpecPanel, SpecRule, SpecInput)         *)
(***************************************************************************)
\* the text is a decimal number: not empty, digits only
IsDecimal(text) == text # <<>> /\ \A i \in 1..Len(text) : IsDigit(text[i])

\* C2: for every content of the cap text field get_slider_values() returns
\* normally with an integer max_balls_cap: the text's value when it is a
\* decimal number, 100000 when it is empty or unparsable.
C2_CapParsedOrDefault ==
    ev.op = "get_slider_values"
        => /\ ev.raised = NoErr
           /\ ev.ret.max_balls_cap =
                 (IF IsDecimal(cap_text) THEN DecimalValue(cap_text) ELSE 100000)

\* C3: after any sequence of pointer-down, drag-move and read operations,
\* every slider's value satisfies min <= value <= max.
C3_SliderValueInRange ==
    \A k \in SliderKeys :
        LET sl == sliders[k] IN
        /\ sl.value.kind = "fin"
        /\ sl.min * sl.value.den <= sl.value.num
        /\ sl.value.num <= sl.max * sl.value.den

\* a drag far right of the gravity track took the value to its max
C3_Witness ==
    /\ ev.op = "drag" /\ ev.args[1] = 1200 /\ ev.obs[2] = "gravity"
    /\ sliders["gravity"].value = Whole(10000)
    /\ sliders["initial_balls"].value = Whole(6)

\* the pointer is inside slider b's span [x, x+width] and hit-box [y-12, y+32]
Qualifies(b, pos) ==
    /\ sliders[b].x <= pos[1] /\ pos[1] <= sliders[b].x + sliders[b].width
    /\ sliders[b].y - 12 <= pos[2] /\ pos[2] <= sliders[b].y + 32

\* C5: at most one slider is the active drag; a pointer-down that qualifies
\* for slider B while slider A is dragging leaves exactly B as the active
\* drag and updates only B's value.
C5_SingleActiveDrag ==
    /\ [](dragging_slider \in SliderKeys \cup {None})
    /\ [][ \A a, b \in SliderKeys :
             (/\ ev'.op = "click"
              /\ dragging_slider = a
              /\ a # b
              /\ Qualifies(b, ev'.args))
             => (/\ dragging_slider' = b
                 /\ \A k \in SliderKeys \ {b} : sliders'[k] = sliders[k]
                 /\ (ev'.args[1] = sliders[b].x
                        => sliders'[b].value = Whole(sliders[b].min))
                 /\ (ev'.args[1] = sliders[b].x + sliders[b].width
                        => sliders'[b].value = Whole(sliders[b].max))) ]_vars

C5_Witness ==
    /\ ev.op = "click" /\ ev.obs = <<"gravity", "small_ball_speed">>
    /\ dragging_slider = "small_ball_speed"
    /\ sliders["small_ball_speed"].value = Whole(600)

\* C6: get_spawn_requests() returns exactly the requests appended since the
\* previous drain, in append order, and leaves the queue empty, so a drain
\* that follows immediately returns an empty list; with nothing ever
\* appended it returns an empty list.
C6_DrainReturnsAppended ==
    /\ [][ ev'.op = "get_spawn_requests"
             => (/\ ev'.ret = appended
                 /\ (spawn_requests' = Absent \/ spawn_requests' = <<>>)
                 /\ (spawn_requests = Absent => ev'.ret = <<>>)) ]_vars
    /\ [][ (ev.op = "get_spawn_requests" /\ ev'.op = "get_spawn_requests")
             => ev'.ret = <<>> ]_vars

C6_Witness ==
    /\ ev.op = "get_spawn_requests" /\ ev.ret = <<"A", "B">>
    /\ spawn_requests = <<>> /\ appended = <<>>

\* C10: for a slider whose width is 0, the value-update rule applied on a
\* click or drag-move sets the value to min and raises no error.
C10_ZeroWidthResetsToMin ==
    (/\ ev.op \in {"click", "drag"}
     /\ ev.obs[2] # None
     /\ sliders[ev.obs[2]].width = 0)
        => /\ ev.raised = NoErr
           /\ sliders[ev.obs[2]].value = Whole(sliders[ev.obs[2]].min)

\* C14: a pointer-down outside every slider's hit-box leaves dragging_slider
\* and every slider's value unchanged (a drag in progress goes on), and a
\* drag-move while no slider is dragging changes no slider value.
C14_MissChangesNothing ==
    /\ [][ (ev'.op = "click" /\ \A k \in SliderKeys : ~Qualifies(k, ev'.args))
             => (dragging_slider' = dragging_slider /\ sliders' = sliders) ]_vars
    /\ [][ (ev'.op = "drag" /\ dragging_slider = None)
             => (sliders' = sliders /\ dragging_slider' = None) ]_vars

\* gravity is dragging; a click just above its hit-box (y = 907) left it so
C14_Witness ==
    /\ ev.op = "click" /\ ev.args = <<190, 907>>
    /\ ev.obs = <<"gravity", None>>
    /\ dragging_slider = "gravity"
    /\ sliders["gravity"].value = Whole(10000)

(***************************************************************************)
(* Claims about the display (SpecRender)                                   *)
(***************************************************************************)
\* C7: whenever the visualizer is disabled (display initialization did not
\* succeed, or close() was called), render_frame issues no draw command and
\* no frame present, and returns without raising.
C7_DisabledRenderIsNoOp ==
    [][ (ev'.op = "render_frame" /\ ~(running /\ pygame # None))
          => (/\ draw_log' = <<>>
              /\ presents' = presents
              /\ ev'.raised = NoErr) ]_vars

\* a frame was drawn, close() was called, and the next render_frame drew nothing
C7_Witness ==
    /\ ev.op = "render_frame" /\ ~running /\ pygame # None
    /\ presents = 1 /\ draw_log = <<>>

\* positions of the commands of the last frame
LogIdx == 1..Len(draw_log)
CmdAt(cmds) == {i \in LogIdx : draw_log[i].cmd \in cmds}

\* C12: within one render_frame on an available display the draw commands
\* are issued in this order: all boundary rings, then the full-canvas
\* trail-fade overlay, then the particles, each particle's halo immediately
\* before its core; the frame present comes after all of them, exactly once.
C12_FrameDrawOrder ==
    (ev.op = "render_frame" /\ ev.obs[1] /\ ev.raised = NoErr)
        => LET rings == CmdAt({"ring", "anchor_ring"})
               fades == CmdAt({"fade"})
               halos == CmdAt({"halo"})
               cores == CmdAt({"core"})
               flips == CmdAt({"flip"})
           IN  /\ Cardinality(fades) = 1
               /\ Cardinality(flips) = 1
               /\ Cardinality(CmdAt({"anchor_ring"})) = Len(ev.args[1])
               /\ Cardinality(halos) = Len(ev.args[2])
               /\ Cardinality(cores) = Len(ev.args[2])
               /\ \A i \in rings, j \in fades : i < j
               /\ \A i \in fades, j \in halos \cup cores : i < j
               /\ \A i \in halos :
                     /\ i + 1 \in cores
                     /\ draw_log[i + 1].idx = draw_log[i].idx
               /\ \A i \in halos, j \in halos :
                     i < j => draw_log[i].idx < draw_log[j].idx
               /\ \A i \in rings \cup fades \cup halos \cup cores, j \in flips : i < j
               /\ draw_log[Len(draw_log)].cmd = "flip"

\* a frame with two boundaries and two particles was drawn and presented
C12_Witness ==
    /\ ev.op = "render_frame" /\ ev.obs[1] /\ ev.raised = NoErr
    /\ Len(ev.args[1]) = 2 /\ Len(ev.args[2]) = 2
    /\ Len(draw_log) = 16 /\ presents = 1

====
